---- MODULE Spec2Model ----
(***************************************************************************)
(* StreamingTranscriber (src/core/transcription.py): the streaming         *)
(* segmentation controller, its engine adapter                             *)
(* (src/backends/asr/sherpa_onnx_beckend.py) as far as the controller      *)
(* calls it, and the environment the controller reads: the chunks handed   *)
(* to it, the text decode() returns and time.monotonic().                  *)
(*                                                                         *)
(* Units.  A byte of the input stream is a natural number, its position    *)
(* in the stream (1-based), so that every byte has an identity.  Second    *)
(* valued configuration (chunk_sec, max_utt_sec, ...) and the wall clock   *)
(* are held in milliseconds.  The audio clock (estimated_end_time,         *)
(* _seg_start_time, step_time_sec) is held as an exact multiple of         *)
(* 1 / (sample_rate * bytes_per_sample) second, the duration of one byte;  *)
(* the rounding of the source's binary floating point is not modelled.     *)
(* A text is a sequence of one-character strings.  _seg_bytes, a list of   *)
(* chunks, is held as their concatenation: only non-empty chunks are       *)
(* appended, so the list is empty exactly when the concatenation is.       *)
(***************************************************************************)
EXTENDS Integers, Sequences, FiniteSets, TLC

VARIABLES
    cfg,                 \* the constructor's arguments and the engine's rate
    ring,                \* self._ring
    last_partial,        \* self._last_partial
    last_change_t,       \* self._last_change_t
    last_emit_t,         \* self._last_emit_t
    seg_bytes,           \* self._seg_bytes, the chunks appended held joined
    seg_start_time,      \* self._seg_start_time
    estimated_end_time,  \* self.estimated_end_time
    seg_index,           \* self._seg_index
    pc,                  \* "idle" between calls, "loop" inside stream_transcribe
    buf,                 \* stream_transcribe's local buf
    buffer_position,     \* stream_transcribe's local buffer_position
    emitted_partial,     \* stream_transcribe's local emitted_partial
    clock,               \* the last value time.monotonic() returned
    received,            \* number of bytes handed to stream_transcribe so far
    accepts,             \* buffers the engine ingested, in order
    engine_calls,        \* numbers of accept, decode and reset calls
    files,               \* artifacts written, in order
    segments,            \* bounds and index of every returned segment
    ret,                 \* outcome of the last call
    call,                \* the last call: what it found and what it did
    win,                 \* the window just processed, in the call it belongs to
    ref,                 \* the utterance's text, and when it changed, was marked, cut
    any_raise,           \* some call so far ended with an exception
    disk,                \* the output directory: path -> frames of the file
    inst_seg_index,      \* self._seg_index of each of several controllers
    writes,              \* every _write_wav so far, of any controller, in order
    thread,              \* of each thread inside stream_transcribe: place and locals
    overlapped,          \* a call began while another was under way
    ui                   \* ui_stream_process: place, the extractor's pipe, the dataset

ctrl == <<ring, last_partial, last_change_t, last_emit_t, seg_bytes,
          seg_start_time, estimated_end_time, seg_index>>
locals == <<pc, buf, buffer_position, emitted_partial>>
env == <<cfg, clock, received, accepts, engine_calls, files, segments>>
ghost == <<ret, call, win, ref, any_raise>>
\* what several controllers of one process share, and their indexes
shared_dir == <<disk, inst_seg_index, writes>>
\* the threads that call one controller
threads == <<thread, overlapped>>
\* the streaming driver of the user interface
driver == <<ui>>
elsewhere == <<shared_dir, threads, driver>>
vars == <<ctrl, locals, env, ghost, elsewhere>>

----------------------------------------------------------------------------
(* Bounds of the model. *)

MaxStream == 10         \* bytes handed to the controller in one behaviour
MaxChunkLen == 3        \* longest chunk handed to stream_transcribe
MaxClock == 2000        \* time.monotonic() stops advancing here (ms)
MaxSegments == 4        \* artifacts one of several controllers writes
MaxFaultStream == 6     \* bytes handed to a controller whose calls may fail
MaxThreadStream == 6    \* bytes handed to the controller by all its threads

(* Program constants. *)

bytes_per_sample == 2
PunctMinMs == 1000

----------------------------------------------------------------------------
(* Sequences of bytes. *)

Max(a, b) == IF a >= b THEN a ELSE b

\* Python's s[i:] for 0 <= i
From(s, i) == SubSeq(s, i + 1, Len(s))

\* Python's s[i:j] for 0 <= i <= j
Slice(s, i, j) == SubSeq(s, i + 1, IF j <= Len(s) THEN j ELSE Len(s))

Bytes(s) == {s[i] : i \in 1..Len(s)}

----------------------------------------------------------------------------
(* Texts. *)

Whitespace == {" ", "\t", "\n"}

\* "u3002" etc. stand for the full-width characters of the source's set
puncts == {".", "?", "!", "u3002", "uFF1F", "uFF01", ",", "uFF0C", ";", "uFF1B"}

RECURSIVE LStrip(_)
LStrip(t) ==
    IF t # <<>> /\ Head(t) \in Whitespace THEN LStrip(Tail(t)) ELSE t

RECURSIVE RStrip(_)
RStrip(t) ==
    IF t # <<>> /\ t[Len(t)] \in Whitespace
    THEN RStrip(SubSeq(t, 1, Len(t) - 1))
    ELSE t

\* mutant: only the leading whitespace is removed
Strip_Leading(t) == LStrip(t)

\* str.strip()
Strip(t) == RStrip(LStrip(t))

\* what decode() may return
Texts == { <<>>, <<"a">>, <<" ", "a">>, <<"a", ".", " ">> }

----------------------------------------------------------------------------
(* Configurations.  sample_rate is scaled down so that windows are a few  *)
(* bytes long: at sample_rate 1 a byte lasts 500 ms.                       *)

Overlapping ==
    [sample_rate |-> 1, expected_sr |-> 1, chunk_sec |-> 2000, overlap_sec |-> 1000,
     max_utt_sec |-> 3500, stall_ms |-> 900, partial_min_interval |-> 250,
     min_utt_sec |-> 1000]

\* Scenario A of the specification, scaled: no overlap
NoOverlap ==
    [sample_rate |-> 1, expected_sr |-> 1, chunk_sec |-> 1000, overlap_sec |-> 0,
     max_utt_sec |-> 3000, stall_ms |-> 900, partial_min_interval |-> 1000,
     min_utt_sec |-> 2500]

\* overlap_sec > chunk_sec, which __init__ accepts
OverlapTooLong ==
    [sample_rate |-> 1, expected_sr |-> 1, chunk_sec |-> 1000, overlap_sec |-> 1500,
     max_utt_sec |-> 2000, stall_ms |-> 900, partial_min_interval |-> 250,
     min_utt_sec |-> 0]

\* overlap_sec = chunk_sec with min_utt_sec = 0, which __init__ accepts and
\* the sliders allow
OverlapEqual ==
    [sample_rate |-> 1, expected_sr |-> 1, chunk_sec |-> 3000, overlap_sec |-> 3000,
     max_utt_sec |-> 6000, stall_ms |-> 900, partial_min_interval |-> 250,
     min_utt_sec |-> 0]

\* the controller's rate differs from the engine's
RateMismatch ==
    [sample_rate |-> 2, expected_sr |-> 1, chunk_sec |-> 1000, overlap_sec |-> 250,
     max_utt_sec |-> 2000, stall_ms |-> 900, partial_min_interval |-> 250,
     min_utt_sec |-> 1000]

Configs == {Overlapping, NoOverlap, OverlapTooLong, OverlapEqual, RateMismatch}

\* bytes per second of audio
ByteRate(c) == c.sample_rate * bytes_per_sample

\* int(sample_rate * bytes_per_sample * chunk_sec)
chunk_bytes(c) == (ByteRate(c) * c.chunk_sec) \div 1000

\* int(sample_rate * bytes_per_sample * overlap_sec)
overlap_bytes(c) == (ByteRate(c) * c.overlap_sec) \div 1000

\* step_time_sec, in byte durations
step_time_sec(c) == chunk_bytes(c) - overlap_bytes(c)

\* step_size = max(1, chunk_bytes - overlap_bytes)
step_size(c) == Max(1, chunk_bytes(c) - overlap_bytes(c))

\* an audio duration d (byte durations) is at least ms milliseconds
AtLeastMs(c, d, ms) == d * 1000 >= ms * ByteRate(c)

\* an audio duration d (byte durations) is more than ms milliseconds
MoreThanMs(c, d, ms) == d * 1000 > ms * ByteRate(c)

----------------------------------------------------------------------------
(* The engine adapter. *)

\* mutant: accept does not compare the rates
AcceptRaises_AnyRate(c, raw_bytes) == Len(raw_bytes) % bytes_per_sample # 0

\* accept_pcm16_bytes raises: the rate check, and numpy's frombuffer on a
\* buffer that is not a whole number of int16 samples
AcceptRaises(c, raw_bytes) ==
    \/ c.sample_rate # c.expected_sr
    \/ Len(raw_bytes) % bytes_per_sample # 0

----------------------------------------------------------------------------
(* The finalize predicate of stream_transcribe. *)

\* mutant: the duration must exceed max_utt_sec
too_long_Strict(c, current_utt_duration) ==
    MoreThanMs(c, current_utt_duration, c.max_utt_sec)

too_long(c, current_utt_duration) ==
    AtLeastMs(c, current_utt_duration, c.max_utt_sec)

\* mutant: the elapsed seconds are compared with milliseconds
stalled_Unscaled(c, now, change_t) == (now - change_t) >= c.stall_ms * 1000

stalled(c, now, change_t) == (now - change_t) >= c.stall_ms

stalled_trigger(c, now, change_t, current_utt_duration) ==
    stalled(c, now, change_t) /\ AtLeastMs(c, current_utt_duration, c.min_utt_sec)

punct_trigger(stripped) == \E i \in 1..Len(stripped) : stripped[i] \in puncts

\* mutant: punctuation finalizes from 1.0 second on
ShouldFinalize_AtFloor(c, now, change_t, current_utt_duration, stripped) ==
    \/ too_long(c, current_utt_duration)
    \/ stalled_trigger(c, now, change_t, current_utt_duration)
    \/ (punct_trigger(stripped) /\ AtLeastMs(c, current_utt_duration, PunctMinMs))

\* mutant: every window finalizes
ShouldFinalize_Always(c, now, change_t, current_utt_duration, stripped) == TRUE

ShouldFinalize(c, now, change_t, current_utt_duration, stripped) ==
    \/ too_long(c, current_utt_duration)
    \/ stalled_trigger(c, now, change_t, current_utt_duration)
    \/ (punct_trigger(stripped) /\ MoreThanMs(c, current_utt_duration, PunctMinMs))

\* mutant: no throttle
MayEmit_Unthrottled(c, now, emit_t, stripped) == stripped # <<>>

\* the throttle of the partial result
MayEmit(c, now, emit_t, stripped) ==
    stripped # <<>> /\ (now - emit_t) >= c.partial_min_interval

----------------------------------------------------------------------------
(* The environment. *)

\* how far time.monotonic() may have advanced between two readings (ms)
ClockSteps == {0, 1000}

\* time.monotonic() at construction (ms)
InitClocks == {0, 1000}

None == <<>>
Some(x) == <<x>>

\* the controller's fields, the engine's calls and the number of artifacts
Snapshot ==
    [ring |-> ring, last_partial |-> last_partial, last_change_t |-> last_change_t,
     last_emit_t |-> last_emit_t, seg_bytes |-> seg_bytes,
     seg_start_time |-> seg_start_time, estimated_end_time |-> estimated_end_time,
     seg_index |-> seg_index, engine_calls |-> engine_calls, files |-> Len(files)]

\* a call that has done nothing yet: the call before it, the controller as
\* an end-of-stream call found it, the windows it fed, its calls of the
\* engine and the file writer in order, and what the decode of flush gave
NoCall == [prev_op |-> "init", pre |-> <<>>, windows |-> 0, trace |-> <<>>,
           decoded |-> None]
NoWindow == [n |-> 0]

----------------------------------------------------------------------------
(* Pieces of the controller. *)

\* mutant: the clock advances by the window's length, not by the step
AdvanceClock_ByWindow(c, end_time) == end_time + chunk_bytes(c)

\* self.estimated_end_time += self.step_time_sec
AdvanceClock(c, end_time) == end_time + step_time_sec(c)

\* mutant: the start of the next utterance is not moved
NextSegStart_Kept(seg_start, seg_end) == seg_start

\* self._seg_start_time = seg_end
NextSegStart(seg_start, seg_end) == seg_end

\* mutant: the index is not incremented
NextIndex_Same(index) == index

\* self._seg_index += 1
NextIndex(index) == index + 1

\* while buffer_position + self.chunk_bytes <= len(buf)
HasWindow(c, b, position) == position + chunk_bytes(c) <= Len(b)

\* piece = buf[buffer_position:buffer_position + self.chunk_bytes]
Piece(c, b, position) == Slice(b, position, position + chunk_bytes(c))

\* mutant: the carry starts one byte late
Remainder_Late(b, position) == From(b, position + 1)

\* mutant: a call that returns without a finalize leaves no carry
Remainder_Empty(b, position) == <<>>

\* self._ring = buf[buffer_position:]
Remainder(b, position) == From(b, position)

\* mutant: the finalize clears the carry
RemainderAfterFinalize_Empty(c, b, position) == <<>>

\* mutant: the carry after a finalize starts at the window that triggered it
RemainderAfterFinalize_NoStep(c, b, position) == From(b, position)

\* self._ring = buf[buffer_position + step_size:]
RemainderAfterFinalize(c, b, position) == From(b, position + step_size(c))

\* mutant: flush has no guard
FlushIdle_Never(chunks, carry) == FALSE

\* mutant: flush tests the carry, not the accumulated bytes
FlushIdle_Carry(chunks, carry) == carry = <<>>

\* flush: if not self._seg_bytes: return None
FlushIdle(chunks, carry) == chunks = <<>>

\* mutant: the finalize keeps the accumulated bytes
ResetSegBytes_Kept(chunks) == chunks

\* self._seg_bytes = []
ResetSegBytes(chunks) == <<>>

\* mutant: the finalizer leaves the time of the last change
ResetChangeTime_Kept(change_t, fin_t) == change_t

\* self._last_change_t = now
ResetChangeTime(change_t, fin_t) == fin_t

\* _finalize_segment(text) reading the clock fin_t, with the utterance fields
\* as the caller left them: the fields it leaves and the segment it returns
FinalizeSegment(text, seg_end, fin_t, partial, change_t, emit_t) ==
    LET pcm_data == seg_bytes IN
    IF pcm_data = <<>>
    THEN [segment |-> None, files |-> files, seg_index |-> seg_index,
          seg_start_time |-> seg_start_time, seg_bytes |-> seg_bytes,
          resets |-> 0, events |-> <<>>, clock |-> clock,
          last_partial |-> partial, last_change_t |-> change_t,
          last_emit_t |-> emit_t]
    ELSE [segment |-> Some([start |-> seg_start_time, end |-> seg_end,
                            text |-> text, index |-> seg_index]),
          files |-> Append(files, [index |-> seg_index, pcm |-> pcm_data]),
          seg_index |-> NextIndex(seg_index),
          seg_start_time |-> NextSegStart(seg_start_time, seg_end),
          seg_bytes |-> ResetSegBytes(pcm_data),
          resets |-> 1, events |-> <<"write", "reset">>, clock |-> fin_t,
          last_partial |-> <<>>,
          last_change_t |-> ResetChangeTime(change_t, fin_t),
          last_emit_t |-> fin_t]

\* the returned segments, with what produced each and the number of windows
\* fed by then (a trigger's own window is fed in the step that finalizes)
Returned(f, by) ==
    LET fed == Cardinality({i \in 1..Len(accepts) : accepts[i].via = "window"})
    IN  IF f.segment = None THEN segments
        ELSE Append(segments,
                    [start |-> f.segment[1].start, end |-> f.segment[1].end,
                     index |-> f.segment[1].index, by |-> by,
                     windows |-> fed + (IF by = "trigger" THEN 1 ELSE 0)])

----------------------------------------------------------------------------
(* Artifact files.  A controller names its files by its own index; the      *)
(* directory and the prefix are the same for every controller.              *)

\* the threads that call stream_transcribe of one controller
Threads == {1, 2}

\* a thread outside stream_transcribe
NotCalling == [pc |-> "idle", audio_bytes |-> <<>>, buf |-> <<>>,
               buffer_position |-> 0, stripped |-> <<>>, index |-> 0,
               pcm_data |-> <<>>]

out_dir == "audios"
filename_prefix == "seg"

\* the controllers of one process
Instances == {1, 2}

RECURSIVE Digits(_)
\* the decimal digits of n >= 0
Digits(n) == IF n < 10 THEN <<n>> ELSE Append(Digits(n \div 10), n % 10)

\* format(index, "04d")
Pad04d(index) ==
    LET d == Digits(index)
    IN  [i \in 1..(4 - Len(d)) |-> 0] \o d

\* os.path.join(self.out_dir, f"{self.filename_prefix}_{self._seg_index:04d}.wav")
Path(dir, prefix, index) == <<dir, prefix, "_", Pad04d(index), ".wav">>

\* mutant: the frames are appended to the file found
WriteFrames_Append(found, pcm_bytes) == found \o pcm_bytes

\* wave.open(path, "wb") and writeframes: the file is created or truncated
WriteFrames(found, pcm_bytes) == pcm_bytes

\* the frames of the file at path, none if there is no such file
Found(path) == IF path \in DOMAIN disk THEN disk[path] ELSE <<>>

\* _write_wav(pcm_bytes) of controller i, whose pcm_bytes are told apart by
\* the controller and the number of the segment
WriteWav(i) ==
    LET index == inst_seg_index[i]
        pcm_bytes == <<[of |-> i, segment |-> index]>>
        path == Path(out_dir, filename_prefix, index)
    IN  /\ index <= MaxSegments
        /\ disk' = [q \in DOMAIN disk \cup {path} |->
                       IF q = path THEN WriteFrames(Found(path), pcm_bytes)
                       ELSE disk[q]]
        /\ inst_seg_index' = [inst_seg_index EXCEPT ![i] = @ + 1]
        /\ writes' = Append(writes, [by |-> i, path |-> path, pcm |-> pcm_bytes])
        /\ UNCHANGED <<ctrl, locals, env, ghost, threads, driver>>

----------------------------------------------------------------------------
\* ui_stream_process not called yet: its place, the bytes left in the
\* extractor's pipe, the bytes the extractor yielded, samples and idx
NotProcessing == [pc |-> "idle", stdout |-> 0, delivered |-> 0,
                  samples |-> <<>>, idx |-> 1]

\* the fields and records of a controller just constructed
Constructed ==
    /\ ring = <<>>
    /\ last_partial = <<>>
    /\ last_change_t = clock
    /\ last_emit_t = 0
    /\ seg_bytes = <<>>
    /\ seg_start_time = 0
    /\ estimated_end_time = 0
    /\ seg_index = 1
    /\ pc = "idle"
    /\ buf = <<>>
    /\ buffer_position = 0
    /\ emitted_partial = None
    /\ received = 0
    /\ accepts = <<>>
    /\ engine_calls = [accept |-> 0, decode |-> 0, reset |-> 0]
    /\ files = <<>>
    /\ segments = <<>>
    /\ ret = [op |-> "init", raised |-> FALSE, partial |-> None, segment |-> None]
    /\ call = NoCall
    /\ win = NoWindow
    /\ ref = [text |-> <<>>, t |-> clock, mark |-> -1, fin |-> -1]
    /\ any_raise = FALSE
    /\ disk = <<>>
    /\ inst_seg_index = [i \in Instances |-> 1]
    /\ writes = <<>>
    /\ thread = [t \in Threads |-> NotCalling]
    /\ overlapped = FALSE
    /\ ui = NotProcessing

Init ==
    /\ cfg \in Configs
    /\ clock \in InitClocks
    /\ Constructed

\* mutant: an empty chunk is treated as any other chunk
IsEndOfStream_Never(audio_bytes) == FALSE

\* stream_transcribe: if not audio_bytes
IsEndOfStream(audio_bytes) == audio_bytes = <<>>

\* mutant: the chunk replaces what was accumulated
AppendChunk_Replace(chunks, audio_bytes) == audio_bytes

\* self._seg_bytes.append(audio_bytes)
AppendChunk(chunks, audio_bytes) == chunks \o audio_bytes

\* stream_transcribe(audio_bytes) past its test for the empty chunk, up to
\* its loop
Begin(len) ==
    LET audio_bytes == [i \in 1..len |-> received + i]
        b == ring \o audio_bytes
    IN  /\ pc = "idle"
        /\ ~IsEndOfStream(audio_bytes)
        /\ received + len <= MaxStream
        /\ received' = received + len
        /\ seg_bytes' = AppendChunk(seg_bytes, audio_bytes)
        /\ call' = [NoCall EXCEPT !.prev_op = ret.op,
                                  !.pre = IF len = 0 THEN Snapshot ELSE <<>>]
        /\ win' = NoWindow
        /\ IF HasWindow(cfg, b, 0)
           THEN /\ pc' = "loop"
                /\ buf' = b
                /\ buffer_position' = 0
                /\ emitted_partial' = None
                /\ UNCHANGED <<ring, ret>>
           ELSE /\ ring' = Remainder(b, 0)
                /\ ret' = [op |-> IF len = 0 THEN "empty" ELSE "stream",
                           raised |-> FALSE, partial |-> None, segment |-> None]
                /\ UNCHANGED locals
        /\ UNCHANGED <<last_partial, last_change_t, last_emit_t, seg_start_time,
                       estimated_end_time, seg_index, cfg, clock, accepts,
                       engine_calls, files, segments, ref, any_raise,
                       elsewhere>>

\* one iteration of the loop in which accept raises: the call ends there
WindowRaises ==
    /\ pc = "loop"
    /\ AcceptRaises(cfg, Piece(cfg, buf, buffer_position))
    /\ pc' = "idle"
    /\ buf' = <<>>
    /\ buffer_position' = 0
    /\ emitted_partial' = None
    /\ ret' = [op |-> "stream", raised |-> TRUE, partial |-> None, segment |-> None]
    /\ any_raise' = TRUE
    /\ call' = [call EXCEPT !.trace = Append(@, "raise")]
    /\ UNCHANGED <<ctrl, env, win, ref, elsewhere>>

\* mutant: the window is fed and not decoded
WindowCalls_NoDecode == <<"accept">>

\* the calls of the engine for one window, in order (lines 195 and 203)
WindowCalls == <<"accept", "decode">>

\* the numbers of calls of the engine, after the calls of events
Tally(counts, events) ==
    [name \in DOMAIN counts |->
        counts[name] + Cardinality({i \in 1..Len(events) : events[i] = name})]

\* one iteration of the loop: accept, the clock, decode, the bookkeeping of
\* the partial result, the finalize predicate, and the return that follows a
\* finalize or the last window.  partial is what decode() returns, d and d2
\* how far time.monotonic() advanced before its readings.
Window(partial, d, d2) ==
    LET piece == Piece(cfg, buf, buffer_position)
        end_time == AdvanceClock(cfg, estimated_end_time)
        now == clock + d
        stripped == Strip(partial)
        changed == partial # last_partial
        change_t == IF changed THEN now ELSE last_change_t
        emit == changed /\ MayEmit(cfg, now, last_emit_t, stripped)
        emit_t == IF emit THEN now ELSE last_emit_t
        marked == IF emit THEN Some(partial) ELSE emitted_partial
        current_utt_duration == end_time - seg_start_time
        fin == ShouldFinalize(cfg, now, change_t, current_utt_duration, stripped)
        f == FinalizeSegment(stripped, end_time, now + d2,
                             IF changed THEN partial ELSE last_partial,
                             change_t, emit_t)
        position == buffer_position + step_size(cfg)
        since == IF partial # ref.text THEN 0 ELSE now - ref.t
        mark_t == IF emit THEN now ELSE ref.mark
        why == (IF too_long(cfg, current_utt_duration) THEN {"too_long"} ELSE {})
               \cup (IF stalled_trigger(cfg, now, change_t, current_utt_duration)
                     THEN {"stalled"} ELSE {})
               \cup (IF punct_trigger(stripped)
                        /\ MoreThanMs(cfg, current_utt_duration, PunctMinMs)
                     THEN {"punct"} ELSE {})
    IN  /\ pc = "loop"
        /\ ~AcceptRaises(cfg, piece)
        /\ now + d2 <= MaxClock
        /\ accepts' = Append(accepts, [via |-> "window", raw |-> piece])
        /\ estimated_end_time' = end_time
        /\ win' = [n |-> 1, now |-> now, since |-> since,
                   duration |-> current_utt_duration, stripped |-> stripped,
                   partial |-> partial, finalized |-> fin,
                   returned |-> fin /\ f.segment # None, marked |-> emit,
                   why |-> why, last_emit_t |-> last_emit_t,
                   last_mark |-> ref.mark, last_fin |-> ref.fin]
        /\ call' = [call EXCEPT !.windows = @ + 1,
                                !.trace = @ \o WindowCalls
                                            \o (IF fin THEN f.events ELSE <<>>)]
        /\ IF fin
           THEN /\ files' = f.files
                /\ seg_index' = f.seg_index
                /\ seg_start_time' = f.seg_start_time
                /\ seg_bytes' = f.seg_bytes
                /\ engine_calls' = Tally(engine_calls, WindowCalls \o f.events)
                /\ clock' = f.clock
                /\ last_partial' = f.last_partial
                /\ last_change_t' = f.last_change_t
                /\ last_emit_t' = f.last_emit_t
                /\ ref' = IF f.segment = None
                          THEN [text |-> partial, t |-> now - since,
                                mark |-> mark_t, fin |-> ref.fin]
                          ELSE [text |-> <<>>, t |-> f.clock,
                                mark |-> mark_t, fin |-> f.clock]
                /\ segments' = Returned(f, "trigger")
                /\ ring' = RemainderAfterFinalize(cfg, buf, buffer_position)
                /\ ret' = [op |-> "stream", raised |-> FALSE,
                           partial |-> marked, segment |-> f.segment]
                /\ pc' = "idle"
                /\ buf' = <<>>
                /\ buffer_position' = 0
                /\ emitted_partial' = None
           ELSE /\ d2 = 0
                /\ clock' = now
                /\ last_partial' = IF changed THEN partial ELSE last_partial
                /\ last_change_t' = change_t
                /\ last_emit_t' = emit_t
                /\ ref' = [text |-> partial, t |-> now - since,
                           mark |-> mark_t, fin |-> ref.fin]
                /\ engine_calls' = Tally(engine_calls, WindowCalls)
                /\ UNCHANGED <<files, seg_index, seg_start_time, seg_bytes, segments>>
                /\ IF HasWindow(cfg, buf, position)
                   THEN /\ buffer_position' = position
                        /\ emitted_partial' = marked
                        /\ UNCHANGED <<ring, ret, pc, buf>>
                   ELSE /\ ring' = Remainder(buf, position)
                        /\ ret' = [op |-> "stream", raised |-> FALSE,
                                   partial |-> marked, segment |-> None]
                        /\ pc' = "idle"
                        /\ buf' = <<>>
                        /\ buffer_position' = 0
                        /\ emitted_partial' = None
        /\ UNCHANGED <<cfg, received, any_raise, elsewhere>>

\* flush(), and stream_transcribe with an empty chunk, which returns
\* (None, self.flush()): op tells which.  text is what decode() returns, d2
\* how far time.monotonic() advanced before the finalizer read it.
Flush(op, text, d2) ==
    LET feeds == ring # <<>>
        final_text == IF feeds THEN Strip(text) ELSE <<>>
        f == FinalizeSegment(final_text, estimated_end_time, clock + d2,
                             last_partial, last_change_t, last_emit_t)
    IN  /\ pc = "idle"
        /\ win' = NoWindow
        /\ UNCHANGED <<locals, cfg, received, estimated_end_time, elsewhere>>
        /\ IF FlushIdle(seg_bytes, ring)
           THEN /\ text = <<>> /\ d2 = 0
                /\ call' = [NoCall EXCEPT !.prev_op = ret.op, !.pre = Snapshot]
                /\ ret' = [op |-> op, raised |-> FALSE,
                           partial |-> None, segment |-> None]
                /\ UNCHANGED <<ring, last_partial, last_change_t, last_emit_t,
                               seg_bytes, seg_start_time, seg_index, clock,
                               accepts, engine_calls, files, segments, ref,
                               any_raise>>
           ELSE IF feeds /\ AcceptRaises(cfg, ring)
           THEN /\ text = <<>> /\ d2 = 0
                /\ call' = [NoCall EXCEPT !.prev_op = ret.op, !.pre = Snapshot,
                                          !.trace = <<"raise">>]
                /\ ret' = [op |-> op, raised |-> TRUE,
                           partial |-> None, segment |-> None]
                /\ any_raise' = TRUE
                /\ UNCHANGED <<ring, last_partial, last_change_t, last_emit_t,
                               seg_bytes, seg_start_time, seg_index, clock,
                               accepts, engine_calls, files, segments, ref>>
           ELSE /\ feeds \/ text = <<>>
                /\ clock + d2 <= MaxClock
                /\ call' = [NoCall EXCEPT
                               !.prev_op = ret.op, !.pre = Snapshot,
                               !.trace = (IF feeds THEN <<"accept", "decode">>
                                          ELSE <<>>) \o f.events,
                               !.decoded = IF feeds THEN Some(text) ELSE None]
                /\ f.segment # None \/ d2 = 0
                /\ ring' = <<>>
                /\ accepts' = IF feeds
                              THEN Append(accepts, [via |-> "flush", raw |-> ring])
                              ELSE accepts
                /\ engine_calls' =
                       [accept |-> engine_calls.accept + (IF feeds THEN 1 ELSE 0),
                        decode |-> engine_calls.decode + (IF feeds THEN 1 ELSE 0),
                        reset |-> engine_calls.reset + f.resets]
                /\ files' = f.files
                /\ seg_index' = f.seg_index
                /\ seg_start_time' = f.seg_start_time
                /\ seg_bytes' = f.seg_bytes
                /\ clock' = f.clock
                /\ last_partial' = f.last_partial
                /\ last_change_t' = f.last_change_t
                /\ last_emit_t' = f.last_emit_t
                /\ ref' = IF f.segment = None THEN ref
                          ELSE [text |-> <<>>, t |-> f.clock,
                                mark |-> ref.mark, fin |-> f.clock]
                /\ segments' = Returned(f, "flush")
                /\ ret' = [op |-> op, raised |-> FALSE,
                           partial |-> None, segment |-> f.segment]
                /\ UNCHANGED any_raise

\* stream_transcribe(b""): return None, self.flush()
EndOfStream(text, d2) ==
    /\ IsEndOfStream(<<>>)
    /\ Flush("empty", text, d2)

Next ==
    \/ \E len \in 0..MaxChunkLen : Begin(len)
    \/ WindowRaises
    \/ \E partial \in Texts, d \in ClockSteps, d2 \in ClockSteps : Window(partial, d, d2)
    \/ \E text \in Texts, d2 \in ClockSteps : Flush("flush", text, d2)
    \/ \E text \in Texts, d2 \in ClockSteps : EndOfStream(text, d2)

Spec == Init /\ [][Next]_vars

----------------------------------------------------------------------------
(* The streaming driver: ui_stream_process constructs a controller and      *)
(* hands it the chunks extract_audio_chunks_from_video yields, one call of  *)
(* stream_transcribe for each, adding a row to the dataset for each segment *)
(* returned.                                                                 *)

\* the configurations of the driver: overlap_sec < chunk_sec, equal rates
SliderConfigs == {Overlapping, NoOverlap}

\* frame_bytes = int(bytes_per_sec * chunk_sec), at the controller's rate
frame_bytes(c) == (ByteRate(c) * c.chunk_sec) \div 1000

\* the lengths of the s16le audio of a video: whole samples
Videos == {bytes_per_sample * k : k \in 0..(MaxStream \div bytes_per_sample)}

\* ui_stream_process(video, ...) up to its loop, the video holding
\* total bytes of audio
UiStart(total) ==
    /\ ui.pc = "idle"
    /\ ui' = [NotProcessing EXCEPT !.pc = "next", !.stdout = total]
    /\ UNCHANGED <<ctrl, locals, env, ghost, shared_dir, threads>>

\* chunk = proc.stdout.read(frame_bytes), not empty: yield chunk
ExtractorYields ==
    LET n == IF ui.stdout < frame_bytes(cfg) THEN ui.stdout ELSE frame_bytes(cfg)
    IN  /\ ui.pc = "next"
        /\ ui.stdout > 0
        /\ ui' = [ui EXCEPT !.pc = "call", !.stdout = @ - n, !.delivered = @ + n]
        /\ UNCHANGED <<ctrl, locals, env, ghost, shared_dir, threads>>

\* the read returns nothing: the extractor breaks and the driver's loop ends
ExtractorExhausted ==
    /\ ui.pc = "next"
    /\ ui.stdout = 0
    /\ ui' = [ui EXCEPT !.pc = "done"]
    /\ UNCHANGED <<ctrl, locals, env, ghost, shared_dir, threads>>

\* transcriber.stream_transcribe(pcm), up to its first window
UiTranscribe ==
    /\ ui.pc = "call"
    /\ received < ui.delivered
    /\ Begin(ui.delivered - received)

\* the rest of the loop's body, once the call returned: a row of the dataset
\* for the finalized segment
UiRow ==
    /\ ui.pc = "call"
    /\ pc = "idle"
    /\ received = ui.delivered
    /\ ui' = IF ret.segment = None
             THEN [ui EXCEPT !.pc = "next"]
             ELSE [ui EXCEPT !.pc = "next", !.idx = @ + 1,
                             !.samples = Append(@, [idx |-> ui.idx,
                                                   t0 |-> ret.segment[1].start,
                                                   t1 |-> ret.segment[1].end,
                                                   text |-> ret.segment[1].text,
                                                   index |-> ret.segment[1].index])]
    /\ UNCHANGED <<ctrl, locals, env, ghost, shared_dir, threads>>

NextDriver ==
    \/ \E total \in Videos : UiStart(total)
    \/ ExtractorYields
    \/ ExtractorExhausted
    \/ UiTranscribe
    \/ \E partial \in Texts, d \in ClockSteps, d2 \in ClockSteps : Window(partial, d, d2)
    \/ UiRow

InitDriver == cfg \in SliderConfigs /\ clock \in InitClocks /\ Constructed

SpecDriver == InitDriver /\ [][NextDriver]_vars

----------------------------------------------------------------------------
(* Failures.  The engine may fail in accept or in decode at any window, and *)
(* the file system may fail when an artifact is opened or written; the      *)
(* controller catches nothing, so the call ends where the exception is      *)
(* raised, with the assignments made before it.                             *)

\* mutant: the carry is brought up to the window that failed
RaisedCarry_Remainder(carry, b, position) == From(b, position)

\* self._ring is assigned at lines 231 and 237 only, after the failing call
RaisedCarry(carry, b, position) == carry

\* mutant: the index is consumed by the write that failed
FailedWriteIndex_Next(index) == index + 1

\* self._seg_index += 1 follows the with block of _write_wav
FailedWriteIndex(index) == index

\* what a call that raised in its loop found: the carry, the chunk and the
\* audio clock (buf is the carry followed by the chunk, line 187)
FoundByCall(fed) ==
    [ring |-> ring, audio_bytes |-> From(buf, Len(ring)),
     estimated_end_time |-> estimated_end_time - fed * step_time_sec(cfg)]

\* one iteration of the loop in which the engine raises, in accept (line
\* 195) or, the window accepted and the clocks advanced, in decode (line
\* 203); d is how far time.monotonic() advanced before line 202
AdapterFault(where, d) ==
    LET piece == Piece(cfg, buf, buffer_position)
        accepted == where = "decode"
    IN  /\ pc = "loop"
        /\ accepted => ~AcceptRaises(cfg, piece)
        /\ ~accepted => d = 0
        /\ clock + d <= MaxClock
        /\ accepts' = IF accepted
                      THEN Append(accepts, [via |-> "window", raw |-> piece])
                      ELSE accepts
        /\ engine_calls' = IF accepted THEN Tally(engine_calls, <<"accept">>)
                           ELSE engine_calls
        /\ estimated_end_time' = IF accepted
                                 THEN AdvanceClock(cfg, estimated_end_time)
                                 ELSE estimated_end_time
        /\ clock' = clock + d
        /\ ring' = RaisedCarry(ring, buf, buffer_position)
        /\ pc' = "idle"
        /\ buf' = <<>>
        /\ buffer_position' = 0
        /\ emitted_partial' = None
        /\ ret' = [op |-> "stream", raised |-> TRUE, partial |-> None,
                   segment |-> None]
        /\ any_raise' = TRUE
        /\ call' = [call EXCEPT
                       !.pre = FoundByCall(call.windows),
                       !.trace = @ \o (IF accepted THEN <<"accept">> ELSE <<>>)
                                   \o <<"raise">>]
        /\ UNCHANGED <<last_partial, last_change_t, last_emit_t, seg_bytes,
                       seg_start_time, seg_index, cfg, received, files,
                       segments, win, ref, elsewhere>>

\* one iteration of the loop whose finalize fails in _write_wav (lines
\* 118-122): the window was accepted and decoded and the partial result
\* recorded, and nothing of lines 123 and 140-150 is done
WindowWriteFails(partial, d) ==
    LET piece == Piece(cfg, buf, buffer_position)
        end_time == AdvanceClock(cfg, estimated_end_time)
        now == clock + d
        stripped == Strip(partial)
        changed == partial # last_partial
        change_t == IF changed THEN now ELSE last_change_t
        emit == changed /\ MayEmit(cfg, now, last_emit_t, stripped)
        since == IF partial # ref.text THEN 0 ELSE now - ref.t
    IN  /\ pc = "loop"
        /\ ~AcceptRaises(cfg, piece)
        /\ now <= MaxClock
        /\ ShouldFinalize(cfg, now, change_t, end_time - seg_start_time, stripped)
        /\ seg_bytes # <<>>
        /\ accepts' = Append(accepts, [via |-> "window", raw |-> piece])
        /\ engine_calls' = Tally(engine_calls, WindowCalls)
        /\ estimated_end_time' = end_time
        /\ clock' = now
        /\ last_partial' = IF changed THEN partial ELSE last_partial
        /\ last_change_t' = change_t
        /\ last_emit_t' = IF emit THEN now ELSE last_emit_t
        /\ ref' = [text |-> partial, t |-> now - since,
                   mark |-> IF emit THEN now ELSE ref.mark, fin |-> ref.fin]
        /\ seg_index' = FailedWriteIndex(seg_index)
        /\ ring' = RaisedCarry(ring, buf, buffer_position)
        /\ pc' = "idle"
        /\ buf' = <<>>
        /\ buffer_position' = 0
        /\ emitted_partial' = None
        /\ ret' = [op |-> "stream", raised |-> TRUE, partial |-> None,
                   segment |-> None]
        /\ any_raise' = TRUE
        /\ win' = NoWindow
        /\ call' = [call EXCEPT
                       !.pre = FoundByCall(call.windows),
                       !.windows = @ + 1,
                       !.trace = @ \o WindowCalls \o <<"write", "raise">>]
        /\ UNCHANGED <<seg_bytes, seg_start_time, cfg, received, files, segments,
                       elsewhere>>

\* flush(), or stream_transcribe with an empty chunk, whose finalize fails in
\* _write_wav: the carry was fed, decoded and emptied (lines 162-165)
FlushWriteFails(op) ==
    LET feeds == ring # <<>> IN
    /\ pc = "idle"
    /\ ~FlushIdle(seg_bytes, ring)
    /\ feeds => ~AcceptRaises(cfg, ring)
    /\ ring' = <<>>
    /\ accepts' = IF feeds THEN Append(accepts, [via |-> "flush", raw |-> ring])
                  ELSE accepts
    /\ engine_calls' = IF feeds THEN Tally(engine_calls, WindowCalls)
                       ELSE engine_calls
    /\ seg_index' = FailedWriteIndex(seg_index)
    /\ ret' = [op |-> op, raised |-> TRUE, partial |-> None, segment |-> None]
    /\ any_raise' = TRUE
    /\ win' = NoWindow
    /\ call' = [NoCall EXCEPT
                   !.prev_op = ret.op, !.pre = Snapshot,
                   !.trace = (IF feeds THEN WindowCalls ELSE <<>>)
                               \o <<"write", "raise">>]
    /\ UNCHANGED <<last_partial, last_change_t, last_emit_t, seg_bytes,
                   seg_start_time, estimated_end_time, locals, cfg, clock,
                   received, files, segments, ref, elsewhere>>

\* the causes of a failure in the loop
Faults == {"accept", "decode"}

NextFaults ==
    \/ \E len \in 1..MaxChunkLen : received + len <= MaxFaultStream /\ Begin(len)
    \/ \E partial \in Texts, d \in ClockSteps, d2 \in ClockSteps : Window(partial, d, d2)
    \/ \E text \in Texts, d2 \in ClockSteps : Flush("flush", text, d2)
    \/ \E where \in Faults, d \in ClockSteps : AdapterFault(where, d)
    \/ \E partial \in Texts, d \in ClockSteps : WindowWriteFails(partial, d)
    \/ FlushWriteFails("flush")

InitFaults == cfg \in SliderConfigs /\ clock = 0 /\ Constructed

SpecFaults == InitFaults /\ [][NextFaults]_vars

\* several controllers finalizing segments in any order
NextInstances == \E i \in Instances : WriteWav(i)

InitInstances == cfg = NoOverlap /\ clock = 0 /\ Constructed

SpecInstances == InitInstances /\ [][NextInstances]_vars

----------------------------------------------------------------------------
(* Threads calling stream_transcribe of one controller with no lock.  Each  *)
(* action is a run of statements of one thread, named by the line it starts *)
(* at; a thread may be overtaken between any two of them.  The clock stands *)
(* still and decode returns one text, so only the audio clock finalizes.    *)

\* what stays as it is while threads run: the one-call locals and records
single_call == <<locals, ret, call, win, ref, cfg, shared_dir, driver>>

\* chunk_sec=1.0 and max_utt_sec=1.0 at 1 sample per second: every window
\* reaches max_utt_sec
ShortUtterance ==
    [sample_rate |-> 1, expected_sr |-> 1, chunk_sec |-> 1000, overlap_sec |-> 0,
     max_utt_sec |-> 1000, stall_ms |-> 900, partial_min_interval |-> 250,
     min_utt_sec |-> 1000]

\* lengths of the chunks the threads hand over: less than a window, and a
\* window and a rest
ThreadChunkLens == {1, 3}

\* what decode() returns while threads run
ThreadTexts == {<<"a">>}

\* thread t at place with the locals changed as given
At(t, place) == [thread[t] EXCEPT !.pc = place]

\* lines 183-186: a non-empty chunk is appended to the accumulated bytes
L186(t, len) ==
    LET audio_bytes == [i \in 1..len |-> received + i]
    IN  /\ thread[t].pc = "idle"
        /\ ~IsEndOfStream(audio_bytes)
        /\ received + len <= MaxThreadStream
        /\ received' = received + len
        /\ seg_bytes' = AppendChunk(seg_bytes, audio_bytes)
        /\ thread' = [thread EXCEPT ![t] =
                         [NotCalling EXCEPT !.pc = "187", !.audio_bytes = audio_bytes]]
        /\ overlapped' = (overlapped \/ \E u \in Threads \ {t} : thread[u].pc # "idle")
        /\ UNCHANGED <<ring, last_partial, last_change_t, last_emit_t,
                       seg_start_time, estimated_end_time, seg_index, clock,
                       accepts, engine_calls, files, segments, any_raise,
                       single_call>>

\* lines 187-190: buf = self._ring + audio_bytes
L187(t) ==
    /\ thread[t].pc = "187"
    /\ thread' = [thread EXCEPT ![t] =
                     [At(t, "192") EXCEPT !.buf = ring \o thread[t].audio_bytes,
                                          !.buffer_position = 0]]
    /\ UNCHANGED <<ctrl, clock, received, accepts, engine_calls, files, segments,
                   any_raise, overlapped, single_call>>

\* lines 192-195: the loop's test and, for a window, accept
L192(t) ==
    LET th == thread[t]
        piece == Piece(cfg, th.buf, th.buffer_position)
    IN  /\ th.pc = "192"
        /\ IF ~HasWindow(cfg, th.buf, th.buffer_position)
           THEN /\ thread' = [thread EXCEPT ![t] = At(t, "237")]
                /\ UNCHANGED <<accepts, engine_calls, any_raise>>
           ELSE IF AcceptRaises(cfg, piece)
           THEN /\ thread' = [thread EXCEPT ![t] = NotCalling]
                /\ any_raise' = TRUE
                /\ UNCHANGED <<accepts, engine_calls>>
           ELSE /\ thread' = [thread EXCEPT ![t] = At(t, "199")]
                /\ accepts' = Append(accepts, [via |-> "window", raw |-> piece])
                /\ engine_calls' = [engine_calls EXCEPT !.accept = @ + 1]
                /\ UNCHANGED any_raise
        /\ UNCHANGED <<ctrl, clock, received, files, segments, overlapped,
                       single_call>>

\* lines 199-227 and 235: the audio clock, decode, the bookkeeping of the
\* partial result and the finalize predicate
L199(t, partial) ==
    LET th == thread[t]
        end_time == AdvanceClock(cfg, estimated_end_time)
        now == clock
        stripped == Strip(partial)
        changed == partial # last_partial
        change_t == IF changed THEN now ELSE last_change_t
        emit == changed /\ MayEmit(cfg, now, last_emit_t, stripped)
        current_utt_duration == end_time - seg_start_time
        fin == ShouldFinalize(cfg, now, change_t, current_utt_duration, stripped)
    IN  /\ th.pc = "199"
        /\ estimated_end_time' = end_time
        /\ engine_calls' = [engine_calls EXCEPT !.decode = @ + 1]
        /\ last_partial' = IF changed THEN partial ELSE last_partial
        /\ last_change_t' = change_t
        /\ last_emit_t' = IF emit THEN now ELSE last_emit_t
        /\ thread' = [thread EXCEPT ![t] =
                         IF fin
                         THEN [At(t, "132") EXCEPT !.stripped = stripped]
                         ELSE [At(t, "192") EXCEPT
                                 !.buffer_position = @ + step_size(cfg)]]
        /\ UNCHANGED <<ring, seg_bytes, seg_start_time, seg_index, clock,
                       received, accepts, files, segments, any_raise, overlapped,
                       single_call>>

\* lines 228, 132-138, 116-117: the finalizer joins the accumulated bytes and
\* names the file by the index it reads
L132(t) ==
    LET pcm_data == seg_bytes
    IN  /\ thread[t].pc = "132"
        /\ thread' = [thread EXCEPT ![t] =
                         IF pcm_data = <<>>
                         THEN At(t, "231")
                         ELSE [At(t, "118") EXCEPT !.pcm_data = pcm_data,
                                                   !.index = seg_index]]
        /\ UNCHANGED <<ctrl, clock, received, accepts, engine_calls, files,
                       segments, any_raise, overlapped, single_call>>

\* lines 118-122: the file is written
L118(t) ==
    /\ thread[t].pc = "118"
    /\ files' = Append(files, [index |-> thread[t].index,
                               pcm |-> thread[t].pcm_data])
    /\ thread' = [thread EXCEPT ![t] = At(t, "123")]
    /\ UNCHANGED <<ctrl, clock, received, accepts, engine_calls, segments,
                   any_raise, overlapped, single_call>>

\* line 123: self._seg_index += 1
L123(t) ==
    /\ thread[t].pc = "123"
    /\ seg_index' = NextIndex(seg_index)
    /\ thread' = [thread EXCEPT ![t] = At(t, "140")]
    /\ UNCHANGED <<ring, last_partial, last_change_t, last_emit_t, seg_bytes,
                   seg_start_time, estimated_end_time, clock, received, accepts,
                   engine_calls, files, segments, any_raise, overlapped,
                   single_call>>

\* lines 140-152: the bounds of the segment and the reset of the utterance
L140(t) ==
    LET seg_start == seg_start_time
        seg_end == estimated_end_time
    IN  /\ thread[t].pc = "140"
        /\ seg_start_time' = NextSegStart(seg_start, seg_end)
        /\ seg_bytes' = ResetSegBytes(seg_bytes)
        /\ engine_calls' = [engine_calls EXCEPT !.reset = @ + 1]
        /\ last_partial' = <<>>
        /\ last_change_t' = clock
        /\ last_emit_t' = clock
        /\ segments' = Append(segments,
                              [start |-> seg_start, end |-> seg_end,
                               index |-> thread[t].index, by |-> "trigger",
                               windows |-> Cardinality({i \in 1..Len(accepts) :
                                                          accepts[i].via = "window"})])
        /\ thread' = [thread EXCEPT ![t] = At(t, "231")]
        /\ UNCHANGED <<ring, estimated_end_time, seg_index, clock, received,
                       accepts, files, any_raise, overlapped, single_call>>

\* lines 231-232: the carry after a finalize, and the return
L231(t) ==
    /\ thread[t].pc = "231"
    /\ ring' = RemainderAfterFinalize(cfg, thread[t].buf, thread[t].buffer_position)
    /\ thread' = [thread EXCEPT ![t] = NotCalling]
    /\ UNCHANGED <<last_partial, last_change_t, last_emit_t, seg_bytes,
                   seg_start_time, estimated_end_time, seg_index, clock, received,
                   accepts, engine_calls, files, segments, any_raise, overlapped,
                   single_call>>

\* lines 237-238: the carry after the last window, and the return
L237(t) ==
    /\ thread[t].pc = "237"
    /\ ring' = Remainder(thread[t].buf, thread[t].buffer_position)
    /\ thread' = [thread EXCEPT ![t] = NotCalling]
    /\ UNCHANGED <<last_partial, last_change_t, last_emit_t, seg_bytes,
                   seg_start_time, estimated_end_time, seg_index, clock, received,
                   accepts, engine_calls, files, segments, any_raise, overlapped,
                   single_call>>

NextThreads ==
    \/ \E t \in Threads, len \in ThreadChunkLens : L186(t, len)
    \/ \E t \in Threads : L187(t)
    \/ \E t \in Threads : L192(t)
    \/ \E t \in Threads, partial \in ThreadTexts : L199(t, partial)
    \/ \E t \in Threads : L132(t)
    \/ \E t \in Threads : L118(t)
    \/ \E t \in Threads : L123(t)
    \/ \E t \in Threads : L140(t)
    \/ \E t \in Threads : L231(t)
    \/ \E t \in Threads : L237(t)

InitThreads == cfg = ShortUtterance /\ clock = 0 /\ Constructed

SpecThreads == InitThreads /\ [][NextThreads]_vars

----------------------------------------------------------------------------
(* Quantities the properties speak of. *)

\* the input so far: the concatenation of all chunks received
Stream == [i \in 1..received |-> i]

\* number of windows stream_transcribe has passed to the engine
WindowCount == Cardinality({i \in 1..Len(accepts) : accepts[i].via = "window"})

\* bytes the engine has ingested
AcceptedBytes == UNION {Bytes(accepts[i].raw) : i \in 1..Len(accepts)}

\* the utterance's duration on the audio clock
Duration == estimated_end_time - seg_start_time

----------------------------------------------------------------------------
C2_Contiguity ==
    \A i \in 2..Len(segments) : segments[i].start = segments[i - 1].end

\* a trigger segment, then a flushed one, then a trigger segment again
C2_Witness ==
    /\ Len(segments) >= 3
    /\ segments[1].by = "trigger" /\ segments[2].by = "flush"
    /\ segments[3].by = "trigger"
    /\ segments[1].start < segments[1].end
    /\ segments[2].start < segments[2].end
    /\ segments[3].start < segments[3].end

C4_MonotonicNaming ==
    /\ \A k \in 1..Len(segments) : segments[k].index = k
    /\ Len(files) = Len(segments)
    /\ \A k \in 1..Len(files) : files[k].index = k
    /\ seg_index = Len(files) + 1

\* three segments, from triggers and from a flush
C4_Witness ==
    /\ Len(segments) >= 3
    /\ \E i, j \in 1..Len(segments) :
          segments[i].by = "trigger" /\ segments[j].by = "flush"

(* C5: duration cutoff.  A window after which the utterance has lasted     *)
(* max_utt_sec finalizes it, so between windows and when a call returns    *)
(* the utterance is shorter than max_utt_sec, and a segment finalized by a *)
(* window is shorter than max_utt_sec + step_time_sec.                     *)
C5_DurationCutoff ==
    /\ Duration * 1000 < cfg.max_utt_sec * ByteRate(cfg)
    /\ (win.n = 1 /\ win.duration * 1000 >= cfg.max_utt_sec * ByteRate(cfg))
           => win.returned
    /\ \A i \in 1..Len(segments) :
           segments[i].by = "trigger" =>
               (segments[i].end - segments[i].start) * 1000
                   < cfg.max_utt_sec * ByteRate(cfg) + step_time_sec(cfg) * 1000

\* a call returns the segment cut by the duration alone, as max_utt_sec is reached
C5_Witness ==
    /\ pc = "idle" /\ ret.op = "stream" /\ ret.segment # None
    /\ win.returned /\ win.why = {"too_long"}
    /\ win.duration * 1000 = cfg.max_utt_sec * ByteRate(cfg)

(* C6: stall cutoff.  A window at which the utterance has lasted           *)
(* min_utt_sec and the decoded (unstripped) text has not changed for       *)
(* stall_ms of wall clock finalizes the segment; the time the code         *)
(* measures from is that of the last change of the decoded text, or of     *)
(* construction or the last finalize when it has not changed since.        *)
C6_StallCutoff ==
    /\ (win.n = 1 /\ win.duration * 1000 >= cfg.min_utt_sec * ByteRate(cfg)
           /\ win.since >= cfg.stall_ms) => win.returned
    /\ pc = "idle" => last_change_t = ref.t

\* a text decoded at an earlier window stays for stall_ms: the stall alone cuts
C6_Witness ==
    /\ pc = "idle" /\ ret.op = "stream" /\ ret.segment # None
    /\ win.returned /\ win.why = {"stalled"}
    /\ win.partial # <<>>
    /\ win.since >= cfg.stall_ms

\* the text holds one of the characters . ? ! , ; or their full-width forms
HasPunct(t) == \E i \in 1..Len(t) : t[i] \in puncts

(* C7: punctuation cutoff.  A window whose stripped text holds a           *)
(* punctuation character and after which the utterance has lasted more     *)
(* than 1.0 second finalizes the segment; up to 1.0 second a window        *)
(* finalizes only for the duration or the stall.                           *)
C7_PunctCutoff ==
    /\ (win.n = 1 /\ HasPunct(win.stripped)
           /\ win.duration * 1000 > PunctMinMs * ByteRate(cfg)) => win.returned
    /\ (win.n = 1 /\ win.finalized
           /\ win.duration * 1000 <= PunctMinMs * ByteRate(cfg))
           => \/ win.duration * 1000 >= cfg.max_utt_sec * ByteRate(cfg)
              \/ /\ win.since >= cfg.stall_ms
                 /\ win.duration * 1000 >= cfg.min_utt_sec * ByteRate(cfg)

\* punctuation alone cuts: below max_utt_sec, below min_utt_sec, no stall
C7_Witness ==
    /\ pc = "idle" /\ ret.op = "stream" /\ ret.segment # None
    /\ win.returned /\ win.why = {"punct"}
    /\ win.duration * 1000 < cfg.min_utt_sec * ByteRate(cfg)
    /\ win.duration * 1000 < cfg.max_utt_sec * ByteRate(cfg)
    /\ win.since < cfg.stall_ms

C10_FlushDrains ==
    (pc = "idle" /\ ret.op = "flush" /\ ~ret.raised /\ ~any_raise)
        => /\ ring = <<>>
           /\ 1..received \subseteq AcceptedBytes

----------------------------------------------------------------------------
(* C11: the text of a flushed segment.  When a flush returns a segment,     *)
(* its text is the stripped result of the decode made after feeding the     *)
(* carry if the carry was not empty, and otherwise the last partial text    *)
(* observed for the utterance.                                              *)

\* the two ways of asking for the flush
FlushOps == {"flush", "empty"}

C11_FlushText ==
    (pc = "idle" /\ ret.op \in FlushOps /\ ~ret.raised /\ ret.segment # None)
        => IF call.pre.ring # <<>>
           THEN /\ call.trace = <<"accept", "decode", "write", "reset">>
                /\ call.decoded # None
                /\ ret.segment[1].text = Strip(call.decoded[1])
           ELSE ret.segment[1].text = Strip(call.pre.last_partial)

----------------------------------------------------------------------------
(* C12: the number of windows of a call.  In a call of stream_transcribe    *)
(* that finalizes nothing, with buf the carry followed by the chunk: if buf *)
(* is shorter than chunk_bytes no window is fed and the carry becomes buf;  *)
(* otherwise floor((len(buf) - chunk_bytes) / step_bytes) + 1 windows are   *)
(* fed, each chunk_bytes long, consecutive ones starting step_bytes apart,  *)
(* where step_bytes = chunk_bytes - overlap_bytes.                          *)

\* floor(a / b) for b other than 0
FloorDiv(a, b) == IF b > 0 THEN a \div b ELSE (0 - a) \div (0 - b)

\* a step of stream_transcribe, its windows taken to start step apart
WindowsEvery(step) ==
    LET chunk == [i \in 1..(received' - received) |-> received + i]
        b == ring \o chunk
        n == call'.windows
    IN  /\ (pc = "idle" /\ received' # received)
               => IF Len(b) < chunk_bytes(cfg)
                  THEN pc' = "idle" /\ accepts' = accepts /\ ring' = b
                  ELSE pc' = "loop" /\ buf' = b
        /\ (pc = "loop" /\ accepts' # accepts)
               => /\ n = call.windows + 1
                  /\ call.windows * step \in 0..Len(buf)
                  /\ accepts' = Append(accepts,
                         [via |-> "window",
                          raw |-> Slice(buf, call.windows * step,
                                        call.windows * step + chunk_bytes(cfg))])
                  /\ Len(accepts'[Len(accepts')].raw) = chunk_bytes(cfg)
        /\ (pc = "loop" /\ pc' = "idle" /\ ~ret'.raised /\ ret'.segment = None)
               => /\ step # 0
                  /\ n = FloorDiv(Len(buf) - chunk_bytes(cfg), step) + 1

C12_WindowCount == [][WindowsEvery(chunk_bytes(cfg) - overlap_bytes(cfg))]_vars

----------------------------------------------------------------------------
(* C13: at most one segment per call.  When a window triggers the finalize  *)
(* predicate the call returns at once with that segment: that window is the *)
(* last one the call passes to the engine, whatever complete windows the    *)
(* buffer still holds, and everything of the buffer past the start of the   *)
(* next window stays in the carry.  A segment is only ever returned by the  *)
(* step that ends a call, so no call returns two.                           *)

\* the window just fed triggered the finalize predicate
Triggered == pc = "loop" /\ accepts' # accepts /\ win'.finalized

ReturnsAtTrigger ==
    /\ Len(segments') \in {Len(segments), Len(segments) + 1}
    /\ Len(segments') # Len(segments) => pc' = "idle" /\ ret'.segment # None
    /\ Triggered
          => /\ pc' = "idle"
             /\ ~ret'.raised /\ ret'.segment # None
             /\ Len(segments') = Len(segments) + 1
             /\ Len(accepts') = Len(accepts) + 1
             /\ ring' = From(buf, call'.windows * step_size(cfg))

C13_OneSegmentPerCall == [][ReturnsAtTrigger]_vars

\* a call returned a segment and left a complete window or more in the carry
C13_Witness ==
    /\ pc = "idle" /\ ret.op = "stream" /\ ret.segment # None
    /\ win.returned
    /\ Len(ring) >= chunk_bytes(cfg)

----------------------------------------------------------------------------
(* C14: configuration validation.  Construction rejects overlap_sec >=      *)
(* chunk_sec and non-positive durations, so every constructed controller    *)
(* has overlap_bytes < chunk_bytes, step_bytes >= 1 and step_time_sec > 0.  *)

C14_ValidatedConfig ==
    /\ cfg.overlap_sec < cfg.chunk_sec
    /\ cfg.chunk_sec > 0 /\ cfg.max_utt_sec > 0
    /\ overlap_bytes(cfg) < chunk_bytes(cfg)
    /\ chunk_bytes(cfg) - overlap_bytes(cfg) >= 1
    /\ step_time_sec(cfg) > 0

----------------------------------------------------------------------------
(* C15: a sample-rate mismatch fails fast.  With a controller whose rate    *)
(* differs from the engine's, accept raises and the engine ingests nothing; *)
(* every call that produces a window ends with that error at its first      *)
(* window, after one attempt, and only calls too short for a window return. *)

C15_RateMismatch ==
    cfg.sample_rate # cfg.expected_sr
        => /\ accepts = <<>>
           /\ engine_calls.accept = 0 /\ engine_calls.decode = 0
           /\ pc = "loop" => buffer_position = 0 /\ call.trace = <<>>
           /\ (pc = "idle" /\ ret.op = "stream")
                  => IF ret.raised
                     THEN call.trace = <<"raise">> /\ call.windows = 0
                     ELSE call.trace = <<>> /\ Len(ring) < chunk_bytes(cfg)
           /\ (pc = "idle" /\ ret.op \in FlushOps /\ call.pre.ring # <<>>
                  /\ call.pre.seg_bytes # <<>>)
                  => ret.raised /\ call.trace = <<"raise">>

\* the second call is the first to produce a window, and it raised
C15_Witness ==
    /\ cfg.sample_rate # cfg.expected_sr
    /\ pc = "idle" /\ ret.op = "stream" /\ ret.raised
    /\ call.prev_op = "stream" /\ call.trace = <<"raise">>
    /\ ring # <<>> /\ accepts = <<>>

----------------------------------------------------------------------------
(* C16: restartable windowing.  As claimed: after any finalize the carry is *)
(* empty when the call that finalized returns.                              *)

C16_EmptyCarry ==
    (pc = "idle" /\ ~ret.raised /\ ret.segment # None) => ring = <<>>

(* C16, amended: the carry is empty when a flush that finalized returns;    *)
(* when a call returns a segment finalized by a window, the carry is the    *)
(* buffer from the start of the window after the triggering one, which is   *)
(* empty only if the buffer ends before it.                                 *)

CarryAfterFinalize ==
    Len(segments') # Len(segments)
        => IF pc = "loop"
           THEN ring' = From(buf, buffer_position + step_size(cfg))
           ELSE ring' = <<>>

C16_CarryAfterFinalize == [][CarryAfterFinalize]_vars

\* a window finalized and its call left a carry shorter than a window
C16_Witness ==
    /\ pc = "idle" /\ ret.op = "stream" /\ ~ret.raised /\ ret.segment # None
    /\ ring # <<>> /\ Len(ring) < chunk_bytes(cfg)
    /\ overlap_bytes(cfg) < chunk_bytes(cfg)

----------------------------------------------------------------------------
(* C17: the exported audio partitions the input.  The accumulated bytes are *)
(* the chunks received since the last finalize, joined and untrimmed; the   *)
(* artifacts are numbered in the order written, and their payloads, joined  *)
(* in that order and followed by the accumulated bytes, are the input       *)
(* received: every input byte is in exactly one of them, once.              *)

RECURSIVE Payloads(_)
\* the payloads of the first k artifacts, joined
Payloads(k) == IF k = 0 THEN <<>> ELSE Payloads(k - 1) \o files[k].pcm

\* how often byte b occurs in s
Occurrences(b, s) == Cardinality({i \in 1..Len(s) : s[i] = b})

C17_Partition ==
    /\ Payloads(Len(files)) \o seg_bytes = Stream
    /\ seg_bytes = From(Stream, Len(Payloads(Len(files))))
    /\ \A k \in 1..Len(files) : files[k].index = k /\ files[k].pcm # <<>>
    /\ \A b \in 1..received :
           Occurrences(b, Payloads(Len(files)) \o seg_bytes) = 1

\* two artifacts and pending bytes, one artifact not a whole number of steps
C17_Witness ==
    /\ Len(files) >= 2 /\ seg_bytes # <<>>
    /\ overlap_bytes(cfg) < chunk_bytes(cfg)
    /\ \E k \in 1..Len(files) : Len(files[k].pcm) % step_size(cfg) # 0

----------------------------------------------------------------------------
(* C18: authoritative text and reset.  The text of a segment finalized by a *)
(* window is the result of that window's decode without its leading and     *)
(* trailing whitespace, the decode coming before the reset; the engine is   *)
(* reset once per returned segment, after the artifact is written, and      *)
(* never when no segment is returned.                                       *)

\* t is raw without the whitespace at its two ends
IsStripped(t, raw) ==
    /\ t # <<>> => t[1] \notin Whitespace /\ t[Len(t)] \notin Whitespace
    /\ \E i \in 0..Len(raw) :
          /\ i + Len(t) <= Len(raw)
          /\ t = SubSeq(raw, i + 1, i + Len(t))
          /\ \A j \in 1..Len(raw) :
                (j <= i \/ j > i + Len(t)) => raw[j] \in Whitespace

\* the calls of name in a trace
CallsOf(name, trace) == {i \in 1..Len(trace) : trace[i] = name}

C18_TextAndReset ==
    /\ engine_calls.reset = Len(segments)
    /\ Len(files) = Len(segments)
    /\ pc = "idle"
          => /\ Cardinality(CallsOf("reset", call.trace))
                   = IF ret.segment # None THEN 1 ELSE 0
             /\ \A i \in CallsOf("reset", call.trace) :
                   /\ i = Len(call.trace)
                   /\ i > 1 /\ call.trace[i - 1] = "write"
                   /\ \A j \in CallsOf("decode", call.trace) : j < i
    /\ (pc = "idle" /\ ret.op = "stream" /\ ret.segment # None)
          => /\ win.n = 1 /\ win.finalized
             /\ IsStripped(ret.segment[1].text, win.partial)
             /\ Len(call.trace) >= 4
             /\ SubSeq(call.trace, Len(call.trace) - 3, Len(call.trace))
                   = <<"accept", "decode", "write", "reset">>

\* a window's decode ended in whitespace and its segment carries the rest
C18_Witness ==
    /\ pc = "idle" /\ ret.op = "stream" /\ ret.segment # None
    /\ ret.segment[1].text # <<>>
    /\ ret.segment[1].text # win.partial
    /\ call.windows >= 2

----------------------------------------------------------------------------
(* C19: the partial throttle.  A partial is marked only at a window whose   *)
(* stripped text is not empty and whose reading of the clock is at least    *)
(* partial_min_interval past the last emit time; marking sets the last emit *)
(* time to that reading.  So a marking is at least partial_min_interval     *)
(* after the marking before it and after the finalize before it.            *)

C19_Throttle ==
    /\ (win.n = 1 /\ win.marked)
          => /\ LStrip(RStrip(win.partial)) # <<>>
             /\ win.now - win.last_emit_t >= cfg.partial_min_interval
             /\ win.last_mark >= 0
                   => win.now - win.last_mark >= cfg.partial_min_interval
             /\ win.last_fin >= 0
                   => win.now - win.last_fin >= cfg.partial_min_interval
             /\ ~win.returned => last_emit_t = win.now
             /\ ref.mark = win.now
    /\ (win.n = 1 /\ ~win.marked) => ref.mark = win.last_mark
    /\ last_emit_t = Max(0, Max(ref.mark, ref.fin))

\* a partial marked after an earlier marking and an earlier finalize
C19_Witness ==
    /\ win.n = 1 /\ win.marked /\ ~win.returned
    /\ win.last_mark >= 0 /\ win.last_fin >= 0
    /\ win.last_fin >= win.last_mark
    /\ cfg.partial_min_interval > 0

----------------------------------------------------------------------------
(* C20: an empty chunk is the end of the stream.  stream_transcribe called  *)
(* with an empty chunk returns no partial, and the segment it returns and   *)
(* the state it leaves are those flush() gives in the state it found: it    *)
(* feeds no window, appends nothing to the accumulated bytes and leaves     *)
(* estimated_end_time alone.                                                *)

\* what flush() does to the state call.pre, given what its decode returned
\* and the clock reading of its finalize
FlushOutcome ==
    LET pre == call.pre IN
    IF pre.seg_bytes = <<>> \/ ret.raised
    THEN ret.segment = None /\ Snapshot = pre
    ELSE /\ (pre.ring = <<>>) = (call.decoded = None)
         /\ ret.segment = Some([start |-> pre.seg_start_time,
                                end |-> pre.estimated_end_time,
                                text |-> IF pre.ring = <<>> THEN <<>>
                                         ELSE LStrip(RStrip(call.decoded[1])),
                                index |-> pre.seg_index])
         /\ ring = <<>> /\ seg_bytes = <<>>
         /\ seg_start_time = pre.estimated_end_time
         /\ seg_index = pre.seg_index + 1
         /\ last_partial = <<>>
         /\ last_change_t = clock /\ last_emit_t = clock
         /\ Len(files) = pre.files + 1
         /\ files[Len(files)] = [index |-> pre.seg_index, pcm |-> pre.seg_bytes]
         /\ engine_calls.reset = pre.engine_calls.reset + 1
         /\ IF pre.ring = <<>>
            THEN /\ engine_calls.accept = pre.engine_calls.accept
                 /\ engine_calls.decode = pre.engine_calls.decode
            ELSE /\ engine_calls.accept = pre.engine_calls.accept + 1
                 /\ engine_calls.decode = pre.engine_calls.decode + 1
                 /\ accepts[Len(accepts)] = [via |-> "flush", raw |-> pre.ring]

C20_EmptyChunkFlushes ==
    /\ (pc = "idle" /\ ret.op \in FlushOps) => FlushOutcome
    /\ (pc = "idle" /\ ret.op = "empty")
          => /\ ret.partial = None
             /\ call.windows = 0
             /\ estimated_end_time = call.pre.estimated_end_time
             /\ seg_bytes \in {<<>>, call.pre.seg_bytes}

\* an empty chunk closed the stream: the carry was fed and a segment returned
C20_Witness ==
    /\ pc = "idle" /\ ret.op = "empty" /\ ret.segment # None
    /\ call.pre.ring # <<>>
    /\ ret.segment[1].text # <<>>
    /\ call.prev_op = "stream"

----------------------------------------------------------------------------
(* C21: Idle and Accumulating.  The controller is Idle when the accumulated *)
(* bytes are empty.  It is Idle at construction, Accumulating after every   *)
(* call with a non-empty chunk that returns no segment, Idle when a call    *)
(* returns a segment; a flush that returns no segment changes nothing.      *)

Idle == seg_bytes = <<>>

C21_IdleAccumulating ==
    /\ pc = "loop" => ~Idle
    /\ pc = "idle"
          => /\ ret.op = "init" => Idle
             /\ (ret.op = "stream" /\ ret.segment = None) => ~Idle
             /\ ret.segment # None => Idle
             /\ (ret.op \in FlushOps /\ ret.segment = None)
                   => seg_bytes = call.pre.seg_bytes

\* Accumulating again, after a segment was returned and the controller Idle
C21_Witness ==
    /\ pc = "idle" /\ ret.op = "stream" /\ ret.segment = None /\ ~ret.raised
    /\ ~Idle /\ Len(files) >= 1
    /\ Len(seg_bytes) < received

----------------------------------------------------------------------------
(* C22: filename collision between controllers.  Controllers that share the *)
(* directory and the prefix give the same path to their k-th artifacts, the *)
(* path depending on nothing but directory, prefix and the controller's own *)
(* index; so of the k-th artifacts of two controllers only the one written  *)
(* last is in the directory.                                                *)

\* the writes of controller i, in order
WritesOf(i) == SelectSeq(writes, LAMBDA w : w.by = i)

\* the last write to path, which some write names
LastWrite(path) ==
    LET n == CHOOSE n \in 1..Len(writes) :
                 /\ writes[n].path = path
                 /\ \A m \in (n + 1)..Len(writes) : writes[m].path # path
    IN  writes[n]

C22_Collision ==
    /\ \A i, j \in Instances :
          \A k \in 1..Len(WritesOf(i)) :
             /\ WritesOf(i)[k].path = Path(out_dir, filename_prefix, k)
             /\ k <= Len(WritesOf(j)) => WritesOf(j)[k].path = WritesOf(i)[k].path
    /\ DOMAIN disk = {writes[n].path : n \in 1..Len(writes)}
    /\ \A path \in DOMAIN disk : disk[path] = LastWrite(path).pcm
    /\ \A n \in 1..Len(writes) :
          (\E m \in (n + 1)..Len(writes) : writes[m].path = writes[n].path)
              => \A path \in DOMAIN disk : disk[path] # writes[n].pcm

\* both controllers wrote a second artifact; the first one's is gone
C22_Witness ==
    /\ Len(WritesOf(1)) >= 2 /\ Len(WritesOf(2)) >= 2
    /\ \E n \in 1..Len(writes) :
          /\ writes[n].by = 1 /\ writes[n].path = Path(out_dir, filename_prefix, 2)
          /\ disk[writes[n].path] # writes[n].pcm
    /\ Cardinality(DOMAIN disk) < Len(writes)

----------------------------------------------------------------------------
(* C23: sequential use is required.  When calls of stream_transcribe on one *)
(* controller overlap, the carry can come to differ from the carry of the   *)
(* sequential windowing, a byte of the input being neither in a window fed  *)
(* to the engine nor in the carry, and two artifacts can be written with    *)
(* the same index; as long as no call began while another was under way,    *)
(* neither happens.                                                         *)

\* no thread is inside stream_transcribe
Quiescent == \A t \in Threads : thread[t].pc = "idle"

\* the carry the sequential windowing of the input leaves
SequentialCarry == From(Stream, Len(accepts) * step_size(cfg))

\* two artifacts were written with one index
SameIndexTwice ==
    \E m, n \in 1..Len(files) : m # n /\ files[m].index = files[n].index

\* a byte of the input that was in no window and is not in the carry
LostByte ==
    \E b \in 1..received :
       /\ b \notin Bytes(ring)
       /\ \A n \in 1..Len(accepts) : b \notin Bytes(accepts[n].raw)

C23_SequentialIsSafe ==
    ~overlapped
        => /\ ~SameIndexTwice
           /\ (Quiescent /\ ~any_raise) => ring = SequentialCarry /\ ~LostByte

\* calls overlapped: a byte is lost and an index was used twice
C23_Witness ==
    /\ overlapped /\ Quiescent /\ ~any_raise
    /\ ring # SequentialCarry /\ LostByte
    /\ SameIndexTwice

----------------------------------------------------------------------------
(* C24: finalize only on the predicate.  A call of stream_transcribe with a *)
(* non-empty chunk returns a segment only if at its last window, the audio  *)
(* clock advanced for that window, max_utt_sec was reached, or the text had *)
(* stalled for stall_ms with min_utt_sec reached, or the text held a        *)
(* punctuation mark with more than 1.0 s of audio; a call that feeds no     *)
(* window returns no segment.                                               *)

C24_OnlyOnPredicate ==
    /\ (pc = "idle" /\ ret.op = "stream" /\ call.windows = 0)
          => ret.segment = None
    /\ (pc = "idle" /\ ret.op = "stream" /\ ret.segment # None)
          => /\ call.windows >= 1 /\ win.n = 1
             /\ ret.segment[1].end = estimated_end_time
             /\ win.duration = ret.segment[1].end - ret.segment[1].start
             /\ \/ win.duration * 1000 >= cfg.max_utt_sec * ByteRate(cfg)
                \/ /\ win.since >= cfg.stall_ms
                   /\ win.duration * 1000 >= cfg.min_utt_sec * ByteRate(cfg)
                \/ /\ HasPunct(win.stripped)
                   /\ win.duration * 1000 > PunctMinMs * ByteRate(cfg)

\* the second window of a call finalized, on the stall alone
C24_Witness ==
    /\ pc = "idle" /\ ret.op = "stream" /\ ret.segment # None
    /\ call.windows = 2
    /\ win.why = {"stalled"}
    /\ ~HasPunct(win.stripped)

----------------------------------------------------------------------------
(* C25: the carry after a finalize.  When the window at offset p finalizes, *)
(* the carry becomes buf[p + step_bytes:], as if the loop had gone on; so   *)
(* as long as no flush has finalized, the i-th window passed to the engine  *)
(* is S[i * step_bytes : i * step_bytes + chunk_bytes] of the input S, the  *)
(* windows counted from 0 and step_bytes = chunk_bytes - overlap_bytes.     *)

\* no segment so far was finalized by a flush
NoFlushYet == \A k \in 1..Len(segments) : segments[k].by # "flush"

\* the windows of the input, and the carry of a call that finalized, taken
\* with windows starting step apart
WindowsOfStream(step) ==
    NoFlushYet
        => /\ \A i \in 1..Len(accepts) :
                 /\ (i - 1) * step \in 0..received
                 /\ accepts[i].raw
                       = Slice(Stream, (i - 1) * step, (i - 1) * step + chunk_bytes(cfg))
           /\ (pc = "idle" /\ ret.op = "stream" /\ ret.segment # None)
                 => /\ Len(accepts) * step \in 0..received
                    /\ ring = From(Stream, Len(accepts) * step)

C25_StreamWindows == WindowsOfStream(chunk_bytes(cfg) - overlap_bytes(cfg))

----------------------------------------------------------------------------
(* C26: the order of operations of a window.  Each window is accepted, then *)
(* the audio clock advances, then decode is called once, then the change    *)
(* of the text is recorded, then the finalize predicate is evaluated.  So   *)
(* between calls the engine has decoded as often as it has accepted, every  *)
(* accept of a call is followed at once by a decode and never by a reset,   *)
(* and the predicate sees the clock and the change time of its own window.  *)

C26_WindowOrder ==
    /\ pc = "idle" => engine_calls.decode = engine_calls.accept
    /\ \A i \in 1..Len(call.trace) :
          /\ call.trace[i] = "accept"
                => i < Len(call.trace) /\ call.trace[i + 1] = "decode"
          /\ call.trace[i] = "decode" => i > 1 /\ call.trace[i - 1] = "accept"
    /\ win.n = 1
          => /\ Cardinality(CallsOf("accept", call.trace)) = call.windows
             /\ ~win.returned
                   => win.duration = estimated_end_time - seg_start_time
             /\ (win.since = 0 /\ cfg.stall_ms > 0) => "stalled" \notin win.why

\* a call fed two windows, the second finalized
C26_Witness ==
    /\ pc = "idle" /\ ret.op = "stream"
    /\ call.trace = <<"accept", "decode", "accept", "decode", "write", "reset">>
    /\ engine_calls.accept >= 3

----------------------------------------------------------------------------
(* C27: partial marking does not depend on a change of the text.  At every  *)
(* window whose stripped text is not empty and whose reading of the clock   *)
(* is at least partial_min_interval past the last emit time, the text is    *)
(* marked as the partial of the call, and a call that returns no segment    *)
(* returns the text so marked.                                               *)

C27_MarkWithoutChange ==
    (win.n = 1 /\ win.stripped # <<>>
        /\ win.now - win.last_emit_t >= cfg.partial_min_interval)
        => /\ win.marked
           /\ pc = "idle" => ret.partial = Some(win.partial)

----------------------------------------------------------------------------
(* C28: the utterance is reset at finalize.  A finalize that returns a      *)
(* segment leaves the last partial text empty and the last change time and  *)
(* the last emit time at the time the finalizer read.  So a window fires    *)
(* the stall trigger after a finalize only if stall_ms of wall-clock time   *)
(* passed since that finalize and min_utt_sec of audio was windowed in the  *)
(* new utterance.                                                            *)

C28_UtteranceReset ==
    /\ (pc = "idle" /\ ret.segment # None)
          => /\ last_partial = <<>>
             /\ last_change_t = clock /\ last_emit_t = clock
             /\ ref.fin = clock
    /\ (win.n = 1 /\ "stalled" \in win.why /\ win.last_fin >= 0)
          => /\ win.now - win.last_fin >= cfg.stall_ms
             /\ AtLeastMs(cfg, win.duration, cfg.min_utt_sec)

\* the stall trigger finalizes an utterance that began at a finalize
C28_Witness ==
    /\ win.n = 1 /\ win.returned /\ win.why = {"stalled"}
    /\ win.last_fin >= 0
    /\ Len(segments) >= 2

----------------------------------------------------------------------------
(* C29: flush performs no windowing.  A flush that returns feeds no window: *)
(* it passes the whole carry to accept in at most one call, decodes at most *)
(* once, leaves the carry empty and estimated_end_time as it was, so that   *)
(* the end of a flushed segment is the end of the last window fed and does  *)
(* not cover the carried audio.                                              *)

\* all of C29 but the emptying of the carry
FlushFeedsOnce ==
    LET pre == call.pre IN
    /\ call.windows = 0
    /\ engine_calls.accept - pre.engine_calls.accept \in {0, 1}
    /\ engine_calls.decode - pre.engine_calls.decode \in {0, 1}
    /\ engine_calls.accept # pre.engine_calls.accept
          => /\ pre.ring # <<>>
             /\ accepts[Len(accepts)] = [via |-> "flush", raw |-> pre.ring]
    /\ estimated_end_time = pre.estimated_end_time
    /\ ret.segment # None
          => /\ ret.segment[1].end = pre.estimated_end_time
             /\ ret.segment[1].end = WindowCount * step_time_sec(cfg)

C29_FlushNoWindowing ==
    (pc = "idle" /\ ret.op \in FlushOps /\ ~ret.raised)
        => FlushFeedsOnce /\ ring = <<>>

----------------------------------------------------------------------------
(* C30: the bounds of a segment are ordered.  Every returned segment starts *)
(* no later than it ends; one finalized by a window trigger lasts at least  *)
(* step_time_sec, which is positive; one produced by flush with no window   *)
(* fed since the finalize before it (since the construction, for the first) *)
(* ends where it starts; the first segment starts at 0.                     *)

\* the windows fed when the k-th segment's utterance began
WindowsBefore(k) == IF k = 1 THEN 0 ELSE segments[k - 1].windows

\* what C30 says of the segments finalized by a trigger and by a flush that
\* fed no window, and of the first
SegmentBounds(k) ==
    LET seg == segments[k] IN
    /\ seg.by = "trigger"
          => /\ seg.end - seg.start >= step_time_sec(cfg)
             /\ step_time_sec(cfg) > 0
    /\ (seg.by = "flush" /\ seg.windows = WindowsBefore(k)) => seg.end = seg.start
    /\ k = 1 => seg.start = 0

C30_OrderedBounds ==
    \A k \in 1..Len(segments) :
        /\ segments[k].start <= segments[k].end
        /\ SegmentBounds(k)

----------------------------------------------------------------------------
(* C31: the engine's input is aligned to samples.  Every buffer passed to   *)
(* accept, a window or the carry fed by flush, has a length that is a       *)
(* multiple of bytes_per_sample, whatever the lengths of the chunks.  The   *)
(* buffers accept took are in accepts; the one buffer it refused in a flush *)
(* that raised is the carry, which that flush left as it was.               *)

C31_SampleAligned ==
    /\ \A i \in 1..Len(accepts) : Len(accepts[i].raw) % bytes_per_sample = 0
    /\ (pc = "idle" /\ ret.raised /\ ret.op \in FlushOps)
          => /\ ring = call.pre.ring
             /\ Len(ring) % bytes_per_sample = 0

----------------------------------------------------------------------------
(* C32: the end of the stream in the streaming driver.  ui_stream_process   *)
(* passes only non-empty chunks to stream_transcribe, and once the          *)
(* extractor is exhausted every byte it yielded belongs to the artifact of  *)
(* a segment that has a row in the dataset.                                 *)

\* the bytes of the segments in the dataset
Reported ==
    UNION {Bytes(files[k].pcm) :
              k \in {j \in 1..Len(files) :
                        \E r \in 1..Len(ui.samples) :
                            ui.samples[r].index = files[j].index}}

C32_DriverEndOfStream ==
    /\ ret.op \notin FlushOps
    /\ ui.pc = "done" => 1..ui.delivered \subseteq Reported

----------------------------------------------------------------------------
(* C33: an adapter error inside stream_transcribe.  When accept or decode   *)
(* raises at a window the call returns no segment and no partial, and what  *)
(* it did stays done: the chunk is at the end of the accumulated bytes, the *)
(* audio clock has the advance of every window accepted, and the carry is   *)
(* the one the call found.  Feeding a chunk of the same length again then   *)
(* appends it after the first copy and feeds the engine the windows of the  *)
(* same carry.                                                               *)

\* a call of stream_transcribe ended by the engine's exception
AdapterRaised ==
    /\ pc = "idle" /\ ret.raised /\ ret.op = "stream"
    /\ call.trace # <<>> /\ call.trace[Len(call.trace)] = "raise"
    /\ "write" \notin Bytes(call.trace)

NotRolledBack ==
    LET pre == call.pre
        n == Len(pre.audio_bytes)
    IN  /\ ret.segment = None /\ ret.partial = None
        /\ ring = pre.ring
        /\ n <= Len(seg_bytes)
        /\ From(seg_bytes, Len(seg_bytes) - n) = pre.audio_bytes
        /\ estimated_end_time
              = pre.estimated_end_time
                  + Cardinality(CallsOf("accept", call.trace)) * step_time_sec(cfg)
        /\ estimated_end_time = WindowCount * step_time_sec(cfg)

\* the next call, with a chunk as long as the one of the call that raised
FedAgain ==
    LET pre == call.pre
        n == Len(pre.audio_bytes)
    IN  (received' = received + n)
            => /\ Len(seg_bytes') = Len(seg_bytes) + n
               /\ Slice(seg_bytes', Len(seg_bytes) - n, Len(seg_bytes)) = pre.audio_bytes
               /\ pc' = "loop"
               /\ buf' = pre.ring \o From(seg_bytes', Len(seg_bytes))
               /\ Len(buf') = Len(pre.ring) + n

C33_AdapterError ==
    [][/\ AdapterRaised' => NotRolledBack'
       /\ (AdapterRaised /\ received' # received) => FedAgain]_vars

\* decode raised at the second window of a call that found a carry
C33_Witness ==
    /\ AdapterRaised
    /\ call.trace = <<"accept", "decode", "accept", "raise">>
    /\ call.pre.ring # <<>>
    /\ seg_start_time < estimated_end_time

----------------------------------------------------------------------------
(* C34: a failure to write the artifact.  When _write_wav fails the call    *)
(* raises and the utterance stays pending: the index is not incremented,    *)
(* the accumulated bytes are kept, the start of the utterance is not moved  *)
(* and the engine is not reset.  So every index consumed is the index of a  *)
(* returned segment, and the returned segments are numbered without a gap.  *)

\* a call ended by the exception of _write_wav
WriteRaised ==
    /\ pc = "idle" /\ ret.raised
    /\ "write" \in Bytes(call.trace)

\* the state the failed write leaves, against the state flush found
LeftPending ==
    /\ ret.segment = None
    /\ seg_bytes # <<>>
    /\ "reset" \notin Bytes(call.trace)
    /\ ret.op = "flush"
          => /\ seg_index = call.pre.seg_index
             /\ seg_bytes = call.pre.seg_bytes
             /\ seg_start_time = call.pre.seg_start_time
             /\ engine_calls.reset = call.pre.engine_calls.reset
             /\ Len(files) = call.pre.files
    /\ ret.op = "stream"
          => From(seg_bytes, Len(seg_bytes) - Len(call.pre.audio_bytes))
                = call.pre.audio_bytes

C34_WriteFailure ==
    /\ WriteRaised => LeftPending
    /\ seg_index = Len(segments) + 1
    /\ \A k \in 1..Len(segments) : segments[k].index = k
    /\ engine_calls.reset = Len(segments)
    /\ Len(files) = Len(segments)
    /\ seg_start_time = IF segments = <<>> THEN 0
                        ELSE segments[Len(segments)].end

\* the write of the second segment fails at a window that finalizes
C34_Witness ==
    /\ WriteRaised /\ ret.op = "stream"
    /\ Len(segments) >= 1
    /\ seg_index = 2

====
